---- MODULE Spec2Model ----
(***************************************************************************)
(* hornet-rulers: a link shortener.  URLManager keeps a single SQLite      *)
(* table urls(link TEXT, url TEXT); MainHandler serves GET /<link> and     *)
(* POST /<anything> on top of it (src/hornet_rulers.py).                   *)
(*                                                                         *)
(* Python strings are modelled as sequences of one-character strings, so   *)
(* that len(), startswith() and 'http://{}'.format() are computed.  The    *)
(* values None and False, and a body argument that the request does not    *)
(* carry, are one-element sequences whose element is not a character, so   *)
(* they differ from every string.                                          *)
(*                                                                         *)
(* A body argument's value is the value tornado's get_body_argument hands  *)
(* to the handler (decoded, surrounding whitespace already stripped).      *)
(***************************************************************************)
EXTENDS Integers, Sequences, FiniteSets, Bags

VARIABLES urls, prev, last, resp, inflight

vars == <<urls, prev, last, resp, inflight>>

----------------------------------------------------------------------------
(* Values *)

None == <<"None">>
False == <<"False">>
Absent == <<"Absent">>

EmptyStr == <<>>
Str_a == <<"a">>
Str_A == <<"A">>
Str_x_com == <<"x", ".", "c", "o", "m">>
Str_https_example_com ==
    <<"h", "t", "t", "p", "s", ":", "/", "/",
      "e", "x", "a", "m", "p", "l", "e", ".", "c", "o", "m">>
Str_false == <<"f", "a", "l", "s", "e">>
Str_0 == <<"0">>
Str_http == <<"h", "t", "t", "p">>
Str_http_scheme == <<"h", "t", "t", "p", ":", "/", "/">>

(* The inputs the operations are driven with. *)
Links == {EmptyStr, Str_a, Str_A}
Urls == {EmptyStr, Str_x_com, Str_https_example_com}
ConfirmedValues == {EmptyStr, Str_false}
\* the paths POST requests are sent to
PostPaths == {EmptyStr, Str_a}

Bodies ==
    [link : Links \cup {Absent},
     url : Urls \cup {Absent},
     confirmed : ConfirmedValues \cup {Absent}]

----------------------------------------------------------------------------
(* Python built-ins the handler uses *)

\* len(s)
len(s) == Len(s)

\* s.startswith(p)
startswith(s, p) == Len(s) >= Len(p) /\ SubSeq(s, 1, Len(p)) = p

\* 'http://{}'.format(s)
format_http(s) == Str_http_scheme \o s

\* a slip: the literals 'false' and '0' are read as "not confirmed"
truthy_Literal(v) ==
    v # False /\ v # None /\ Len(v) # 0 /\ v # Str_false /\ v # Str_0

\* bool(v) of a body argument: False and '' are falsy, other strings truthy
truthy(v) == v # False /\ v # None /\ Len(v) # 0

\* RequestHandler.get_body_argument(name, default)
get_body_argument(body, name, default) ==
    IF body[name] = Absent THEN default ELSE body[name]

----------------------------------------------------------------------------
(* URLManager: the table is the sequence of its rows in rowid order *)

Row(link, url) == [link |-> link, url |-> url]

\* rows matched by WHERE link = ? (TEXT compares bytewise: case-sensitive)
Matching(t, link) == {i \in 1..Len(t) : t[i].link = link}

\* UPDATE urls SET url = ? WHERE link = ?
sql_update(t, link, url) ==
    [i \in 1..Len(t) |-> IF t[i].link = link THEN Row(link, url) ELSE t[i]]

\* cursor.rowcount after the UPDATE
rowcount(t, link) == Cardinality(Matching(t, link))

\* INSERT INTO urls (link, url) VALUES (?, ?)
sql_insert(t, link, url) == Append(t, Row(link, url))

\* DELETE FROM urls WHERE link = ?
sql_delete(t, link) == SelectSeq(t, LAMBDA r : r.link # link)

\* SELECT url FROM urls WHERE link = ?  (the rows, in rowid order)
sql_select(t, link) == SelectSeq(t, LAMBDA r : r.link = link)

\* a slip: the INSERT runs without the UPDATE before it
set_url_InsertOnly(t, link, url) == sql_insert(t, link, url)

\* a slip: the INSERT is not guarded by rowcount == 0
set_url_Unguarded(t, link, url) ==
    sql_insert(sql_update(t, link, url), link, url)

\* a slip: the INSERT runs first and the UPDATE after it
set_url_InsertFirst(t, link, url) ==
    sql_update(sql_insert(t, link, url), link, url)

set_url(t, link, url) ==
    LET updated == sql_update(t, link, url)
    IN  IF rowcount(t, link) = 0
        THEN sql_insert(updated, link, url)
        ELSE updated

\* a slip: the WHERE clause compares the links without regard to case
delete_url_NoCase(t, link) ==
    LET lower(x) == [i \in 1..Len(x) |-> IF x[i] = "A" THEN "a" ELSE x[i]]
    IN  SelectSeq(t, LAMBDA r : lower(r.link) # lower(link))

\* a slip: DELETE without its WHERE clause
delete_url_NoWhere(t, link) == <<>>

delete_url(t, link) == sql_delete(t, link)

\* a slip: '' is returned where no row is found
get_url_EmptyForNone(t, link) ==
    LET rows == sql_select(t, link)
    IN  IF rows = <<>> THEN EmptyStr ELSE rows[1].url

get_url(t, link) ==
    LET rows == sql_select(t, link)
    IN  IF rows = <<>> THEN None ELSE rows[1].url

----------------------------------------------------------------------------
(* State *)

\* what a store call or a request leaves behind: the table, the response
\* (a return value, a rendered template or a redirect) and the store calls
\* it made
NoResp ==
    [kind |-> "none", status |-> 0, view |-> "", link |-> None, url |-> None,
     existing_url |-> None, value |-> None, calls |-> <<>>]

Returned(v, calls) ==
    [NoResp EXCEPT !.kind = "return", !.value = v, !.calls = calls]

\* self.render(template, link=..., url=..., existing_url=...)
Render(view, link, url, existing_url, calls) ==
    [NoResp EXCEPT !.kind = "render", !.status = 200, !.view = view,
                   !.link = link, !.url = url, !.existing_url = existing_url,
                   !.calls = calls]

\* self.redirect(url): 302 with Location: url
Redirect(url, calls) ==
    [NoResp EXCEPT !.kind = "redirect", !.status = 302, !.value = url,
                   !.calls = calls]

Call(op, link) == <<op, link>>

NoOp == [op |-> "init", path |-> None, link |-> None, url |-> None,
         confirmed |-> None, fault |-> "none"]

Init ==
    /\ urls = <<>>
    /\ prev = <<>>
    /\ last = NoOp
    /\ resp = NoResp
    /\ inflight = EmptyBag

----------------------------------------------------------------------------
(* URLManager's methods called directly *)

SetUrl ==
    \E link \in Links, url \in Urls :
        /\ urls' = set_url(urls, link, url)
        /\ prev' = urls
        /\ last' = [NoOp EXCEPT !.op = "set_url", !.link = link, !.url = url]
        /\ resp' = Returned(None, <<Call("set_url", link)>>)
        /\ UNCHANGED inflight

DeleteUrl ==
    \E link \in Links :
        /\ urls' = delete_url(urls, link)
        /\ prev' = urls
        /\ last' = [NoOp EXCEPT !.op = "delete_url", !.link = link]
        /\ resp' = Returned(None, <<Call("delete_url", link)>>)
        /\ UNCHANGED inflight

GetUrl ==
    \E link \in Links :
        /\ urls' = urls
        /\ prev' = urls
        /\ last' = [NoOp EXCEPT !.op = "get_url", !.link = link]
        /\ resp' = Returned(get_url(urls, link), <<Call("get_url", link)>>)
        /\ UNCHANGED inflight

----------------------------------------------------------------------------
(* MainHandler.  A handler's outcome: the table it leaves and its response. *)

Outcome(t, r) == [table |-> t, resp |-> r]

\* a slip: the redirect is permanent (301)
get_Permanent(t, link) ==
    IF len(link) = 0
    THEN Outcome(t, Render("index.html", EmptyStr, EmptyStr, None, <<>>))
    ELSE LET url == get_url(t, link)
             calls == <<Call("get_url", link)>>
         IN  IF url = None
             THEN Outcome(t, Render("index.html", link, EmptyStr, None, calls))
             ELSE Outcome(t, [Redirect(url, calls) EXCEPT !.status = 301])

\* MainHandler.get(link)
get(t, link) ==
    IF len(link) = 0
    THEN Outcome(t, Render("index.html", EmptyStr, EmptyStr, None, <<>>))
    ELSE LET url == get_url(t, link)
             calls == <<Call("get_url", link)>>
         IN  IF url = None
             THEN Outcome(t, Render("index.html", link, EmptyStr, None, calls))
             ELSE Outcome(t, Redirect(url, calls))

\* a slip: the prefix is added without the startswith test
normalize_Always(url) == format_http(url)

\* a slip: the url is used as posted
normalize_AsPosted(url) == url

\* if not url.startswith('http'): url = 'http://{}'.format(url)
normalize(url) == IF ~startswith(url, Str_http) THEN format_http(url) ELSE url

\* a slip: the branch deletes without looking at confirmed
post_delete_Unconfirmed(t, link, existing_url, confirmed) ==
    LET read == <<Call("get_url", link)>>
    IN  IF existing_url = None
        THEN Outcome(t, Render("index.html", link, EmptyStr, None, read))
        ELSE Outcome(delete_url(t, link),
                     Render("deleted.html", link, None, None,
                            Append(read, Call("delete_url", link))))

\* MainHandler.post, the branch len(url) == 0
post_delete(t, link, existing_url, confirmed) ==
    LET read == <<Call("get_url", link)>>
    IN  IF existing_url = None
        THEN Outcome(t, Render("index.html", link, EmptyStr, None, read))
        ELSE IF ~truthy(confirmed)
        THEN Outcome(t, Render("confirm_delete.html", link, None,
                               existing_url, read))
        ELSE Outcome(delete_url(t, link),
                     Render("deleted.html", link, None, None,
                            Append(read, Call("delete_url", link))))

\* a slip: the upsert runs without looking at confirmed
post_update_Unconfirmed(t, link, posted_url, existing_url, confirmed) ==
    LET read == <<Call("get_url", link)>>
        url == normalize(posted_url)
    IN  Outcome(set_url(t, link, url),
                Render("updated.html", link, url, None,
                       Append(read, Call("set_url", link))))

\* a slip: confirmation is asked for whether or not a mapping exists
post_update_AlwaysAsks(t, link, posted_url, existing_url, confirmed) ==
    LET read == <<Call("get_url", link)>>
        url == normalize(posted_url)
    IN  IF ~truthy(confirmed)
        THEN Outcome(t, Render("confirm_update.html", link, url,
                               existing_url, read))
        ELSE Outcome(set_url(t, link, url),
                     Render("updated.html", link, url, None,
                            Append(read, Call("set_url", link))))

\* MainHandler.post, from the normalisation of a non-empty url on
post_update(t, link, posted_url, existing_url, confirmed) ==
    LET read == <<Call("get_url", link)>>
        url == normalize(posted_url)
    IN  IF existing_url # None /\ ~truthy(confirmed)
        THEN Outcome(t, Render("confirm_update.html", link, url,
                               existing_url, read))
        ELSE Outcome(set_url(t, link, url),
                     Render("updated.html", link, url, None,
                            Append(read, Call("set_url", link))))

\* a slip: the len(link) == 0 test is missing
post_NoLinkTest(t, unused_link, body) ==
    LET link == get_body_argument(body, "link", EmptyStr)
        url == get_body_argument(body, "url", EmptyStr)
        confirmed == get_body_argument(body, "confirmed", False)
        existing_url == get_url(t, link)
    IN  IF len(url) = 0
        THEN post_delete(t, link, existing_url, confirmed)
        ELSE post_update(t, link, url, existing_url, confirmed)

\* a slip: the link of the path stands in for a missing link argument
post_PathAsLink(t, unused_link, body) ==
    LET link == get_body_argument(body, "link", unused_link)
        url == get_body_argument(body, "url", EmptyStr)
        confirmed == get_body_argument(body, "confirmed", False)
    IN  IF len(link) = 0
        THEN Outcome(t, Render("index.html", link, url, None, <<>>))
        ELSE LET existing_url == get_url(t, link)
             IN  IF len(url) = 0
                 THEN post_delete(t, link, existing_url, confirmed)
                 ELSE post_update(t, link, url, existing_url, confirmed)

\* MainHandler.post(unused_link); url_manager and self.url_manager are the
\* one URLManager the program constructs
post(t, unused_link, body) ==
    LET link == get_body_argument(body, "link", EmptyStr)
        url == get_body_argument(body, "url", EmptyStr)
        confirmed == get_body_argument(body, "confirmed", False)
    IN  IF len(link) = 0
        THEN Outcome(t, Render("index.html", link, url, None, <<>>))
        ELSE LET existing_url == get_url(t, link)
             IN  IF len(url) = 0
                 THEN post_delete(t, link, existing_url, confirmed)
                 ELSE post_update(t, link, url, existing_url, confirmed)

Get ==
    \E link \in Links :
        LET out == get(urls, link)
        IN  /\ urls' = out.table
            /\ prev' = urls
            /\ last' = [NoOp EXCEPT !.op = "GET", !.path = link]
            /\ resp' = out.resp
            /\ UNCHANGED inflight

Post ==
    \E unused_link \in PostPaths, body \in Bodies :
        LET out == post(urls, unused_link, body)
        IN  /\ urls' = out.table
            /\ prev' = urls
            /\ last' = [op |-> "POST", path |-> unused_link,
                        link |-> body.link, url |-> body.url,
                        confirmed |-> body.confirmed, fault |-> "none"]
            /\ resp' = out.resp
            /\ UNCHANGED inflight

Next == SetUrl \/ DeleteUrl \/ GetUrl \/ Get \/ Post

Spec == Init /\ [][Next]_vars

----------------------------------------------------------------------------
(* The HTTP interface alone: GET and POST requests served one at a time,     *)
(* POSTs to every path and with more values of confirmed.                    *)

HttpBodies ==
    [link : Links \cup {Absent},
     url : Urls \cup {Absent},
     confirmed : ConfirmedValues \cup {Str_0, Absent}]

PostHttp ==
    \E unused_link \in Links, body \in HttpBodies :
        LET out == post(urls, unused_link, body)
        IN  /\ urls' = out.table
            /\ prev' = urls
            /\ last' = [op |-> "POST", path |-> unused_link,
                        link |-> body.link, url |-> body.url,
                        confirmed |-> body.confirmed, fault |-> "none"]
            /\ resp' = out.resp
            /\ UNCHANGED inflight

NextHttp == Get \/ PostHttp

SpecHttp == Init /\ [][NextHttp]_vars

----------------------------------------------------------------------------
(* Requests in flight together.  Each URLManager call is one transaction     *)
(* (with self.db); between the get_url of line 97 and the delete_url or      *)
(* set_url of lines 106 and 117 the handler holds no lock, so the calls of   *)
(* other requests can come in between.  A request that has read and is to    *)
(* write waits in inflight with the existing_url it read; one that makes no  *)
(* further call finishes in the step of its read.                            *)

\* the number of requests that can be between their read and their write
MaxInflight == 2

\* the bodies of the requests served together
InflightBodies ==
    [link : Links, url : Urls, confirmed : {Absent, Str_false}]

\* MainHandler.post from line 99 on, with the existing_url read at line 97
post_rest(t, body, existing_url) ==
    LET link == get_body_argument(body, "link", EmptyStr)
        url == get_body_argument(body, "url", EmptyStr)
        confirmed == get_body_argument(body, "confirmed", False)
    IN  IF len(url) = 0
        THEN post_delete(t, link, existing_url, confirmed)
        ELSE post_update(t, link, url, existing_url, confirmed)

\* the handler goes on to line 106 or line 117
writes(body, existing_url) ==
    Len(post_rest(<<>>, body, existing_url).resp.calls) > 1

Pending(body, existing_url) == [body |-> body, existing_url |-> existing_url]

PostRequest(unused_link, body) ==
    [op |-> "POST", path |-> unused_link, link |-> body.link,
     url |-> body.url, confirmed |-> body.confirmed, fault |-> "none"]

\* lines 89-97 and, when no write follows, the rest of the handler
PostRead ==
    \E body \in InflightBodies :
        LET link == get_body_argument(body, "link", EmptyStr)
            existing_url == get_url(urls, link)
        IN  IF len(link) # 0 /\ writes(body, existing_url)
            THEN /\ BagCardinality(inflight) < MaxInflight
                 /\ inflight' = inflight (+) SetToBag({Pending(body, existing_url)})
                 /\ UNCHANGED <<urls, prev, last, resp>>
            ELSE LET out == post(urls, EmptyStr, body)
                 IN  /\ urls' = out.table
                     /\ prev' = urls
                     /\ last' = PostRequest(EmptyStr, body)
                     /\ resp' = out.resp
                     /\ UNCHANGED inflight

\* lines 106-107 or 117-118 of a request that has read
PostWrite ==
    \E p \in BagToSet(inflight) :
        LET out == post_rest(urls, p.body, p.existing_url)
        IN  /\ urls' = out.table
            /\ prev' = urls
            /\ last' = PostRequest(EmptyStr, p.body)
            /\ resp' = out.resp
            /\ inflight' = inflight (-) SetToBag({p})

NextInflight == Get \/ PostRead \/ PostWrite

SpecInflight == Init /\ [][NextInflight]_vars

----------------------------------------------------------------------------
(* Storage faults.  Each URLManager method runs its statements inside        *)
(* "with self.db:", which commits when the block ends normally and rolls     *)
(* back when it raises; the exception goes on to the caller.  A fault is an  *)
(* sqlite3 error raised by one statement, which then has no effect, or by    *)
(* the commit.                                                               *)

\* the exception a storage fault raises
StorageFault == <<"sqlite3.Error">>

\* what the block of a method has done: the rows as the transaction sees
\* them, the statements run, the value to return and whether it raised
Block(work, stmts, value, raised) ==
    [work |-> work, stmts |-> stmts, value |-> value, raised |-> raised]

\* the block of set_url
set_url_block(t, link, url, fault) ==
    IF fault = "UPDATE"
    THEN Block(t, <<"UPDATE">>, None, TRUE)
    ELSE LET updated == sql_update(t, link, url)
         IN  IF rowcount(t, link) = 0
             THEN IF fault = "INSERT"
                  THEN Block(updated, <<"UPDATE", "INSERT">>, None, TRUE)
                  ELSE Block(sql_insert(updated, link, url),
                             <<"UPDATE", "INSERT">>, None, FALSE)
             ELSE Block(updated, <<"UPDATE">>, None, FALSE)

\* the block of delete_url
delete_url_block(t, link, fault) ==
    IF fault = "DELETE"
    THEN Block(t, <<"DELETE">>, None, TRUE)
    ELSE Block(sql_delete(t, link), <<"DELETE">>, None, FALSE)

\* the block of get_url
get_url_block(t, link, fault) ==
    IF fault = "SELECT"
    THEN Block(t, <<"SELECT">>, None, TRUE)
    ELSE Block(t, <<"SELECT">>, get_url(t, link), FALSE)

\* a slip: the block runs without the rollback of "with self.db:", so what a
\* failed transaction did stays visible to the calls that follow
with_db_NoRollback(t, block, fault) ==
    IF block.raised \/ fault = "COMMIT"
    THEN Outcome(block.work, [NoResp EXCEPT !.kind = "raise",
                                            !.value = StorageFault,
                                            !.calls = block.stmts])
    ELSE Outcome(block.work, Returned(block.value,
                                      Append(block.stmts, "COMMIT")))

\* with self.db: <block>
with_db(t, block, fault) ==
    IF block.raised
    THEN Outcome(t, [NoResp EXCEPT !.kind = "raise", !.value = StorageFault,
                                   !.calls = Append(block.stmts, "ROLLBACK")])
    ELSE IF fault = "COMMIT"
    THEN Outcome(t, [NoResp EXCEPT !.kind = "raise", !.value = StorageFault,
                                   !.calls = block.stmts \o
                                             <<"COMMIT", "ROLLBACK">>])
    ELSE Outcome(block.work, Returned(block.value,
                                      Append(block.stmts, "COMMIT")))

SetUrlTx ==
    \E link \in Links, url \in Urls,
       fault \in {"none", "UPDATE", "INSERT", "COMMIT"} :
        LET out == with_db(urls, set_url_block(urls, link, url, fault), fault)
        IN  /\ urls' = out.table
            /\ prev' = urls
            /\ last' = [NoOp EXCEPT !.op = "set_url", !.link = link,
                                    !.url = url, !.fault = fault]
            /\ resp' = out.resp
            /\ UNCHANGED inflight

DeleteUrlTx ==
    \E link \in Links, fault \in {"none", "DELETE", "COMMIT"} :
        LET out == with_db(urls, delete_url_block(urls, link, fault), fault)
        IN  /\ urls' = out.table
            /\ prev' = urls
            /\ last' = [NoOp EXCEPT !.op = "delete_url", !.link = link,
                                    !.fault = fault]
            /\ resp' = out.resp
            /\ UNCHANGED inflight

GetUrlTx ==
    \E link \in Links, fault \in {"none", "SELECT", "COMMIT"} :
        LET out == with_db(urls, get_url_block(urls, link, fault), fault)
        IN  /\ urls' = out.table
            /\ prev' = urls
            /\ last' = [NoOp EXCEPT !.op = "get_url", !.link = link,
                                    !.fault = fault]
            /\ resp' = out.resp
            /\ UNCHANGED inflight

NextFault == SetUrlTx \/ DeleteUrlTx \/ GetUrlTx

SpecFault == Init /\ [][NextFault]_vars

----------------------------------------------------------------------------
(* What the properties are stated with *)

\* the request carries a non-empty value for the argument
NonEmpty(v) == v # Absent /\ v # None /\ v # EmptyStr

\* the request carries no value, or an empty one, for the argument
Empty(v) == v = Absent \/ v = EmptyStr

\* the value an argument has for the handler: '' when the request lacks it
Posted(v) == IF v = Absent THEN EmptyStr ELSE v

\* the table has a row for the link
Mapped(t, link) == \E i \in 1..Len(t) : t[i].link = link

\* the number of rows the table has for the link
RowsOf(t, link) == Cardinality({i \in 1..Len(t) : t[i].link = link})

BeginsWithHttp(u) ==
    /\ Len(u) >= 4
    /\ u[1] = "h" /\ u[2] = "t" /\ u[3] = "t" /\ u[4] = "p"

\* the url a posted url is to be stored as
Normalized(u) ==
    IF BeginsWithHttp(u) THEN u ELSE <<"h", "t", "t", "p", ":", "/", "/">> \o u

IsPost == last.op = "POST"

Rendered(view) == resp.kind = "render" /\ resp.view = view

----------------------------------------------------------------------------
(* URLManager *)

\* C1: for non-empty link and url, in any state of the store, get_url(link)
\* right after set_url(link, url) returns exactly url.
C1_SetThenGet ==
    (last.op = "set_url" /\ last.link # EmptyStr /\ last.url # EmptyStr)
        => get_url(urls, last.link) = last.url

\* set_url has overwritten the different url of a non-empty link
C1_Witness ==
    /\ last.op = "set_url" /\ last.link # EmptyStr /\ last.url # EmptyStr
    /\ Mapped(prev, last.link)
    /\ get_url(prev, last.link) # last.url
    /\ get_url(urls, last.link) = last.url

\* C2: set_url is an upsert.  After set_url(link, a) the table has exactly
\* one row for link; it was updated in place when link had a row and appended
\* when it had none; and a set_url(link, b) that follows, for every b (b = a
\* included), again leaves exactly one row for link, holding b.
C2_Upsert ==
    last.op = "set_url" =>
        /\ RowsOf(urls, last.link) = 1
        /\ Mapped(prev, last.link) =>
               /\ Len(urls) = Len(prev)
               /\ \A i \in 1..Len(prev) :
                      urls[i] = IF prev[i].link = last.link
                                THEN Row(last.link, last.url)
                                ELSE prev[i]
        /\ ~Mapped(prev, last.link) =>
               urls = Append(prev, Row(last.link, last.url))
        /\ \A b \in Urls :
               LET after == set_url(urls, last.link, b)
               IN  /\ RowsOf(after, last.link) = 1
                   /\ Len(after) = Len(urls)
                   /\ \A i \in 1..Len(after) :
                          after[i].link = last.link => after[i].url = b

\* set_url has updated in place the row of a link that other rows surround
C2_Witness ==
    /\ last.op = "set_url"
    /\ Len(prev) = 3
    /\ prev[2].link = last.link
    /\ prev[2].url # last.url
    /\ Len(urls) = 3
    /\ urls[2] = Row(last.link, last.url)

\* C3: after delete_url(link), get_url(link) returns None; delete_url of a
\* link that has no row returns normally and leaves the table as it was, so
\* a second delete_url(link) changes nothing.
C3_Delete ==
    last.op = "delete_url" =>
        /\ resp.kind = "return"
        /\ get_url(urls, last.link) = None
        /\ ~Mapped(urls, last.link)
        /\ ~Mapped(prev, last.link) => urls = prev
        /\ delete_url(urls, last.link) = urls

\* delete_url has removed the row of a link and kept the others
C3_Witness ==
    /\ last.op = "delete_url"
    /\ Mapped(prev, last.link)
    /\ Len(prev) = 3
    /\ Len(urls) = 2
    /\ get_url(urls, last.link) = None

\* C4: get_url of a link that has no row returns None, as a value; get_url
\* never changes the table.
C4_GetAbsent ==
    last.op = "get_url" =>
        /\ urls = prev
        /\ resp.kind = "return"
        /\ ~Mapped(prev, last.link) => resp.value = None

\* get_url has looked up a link that has no row in a table that has rows
C4_Witness ==
    /\ last.op = "get_url"
    /\ ~Mapped(prev, last.link)
    /\ Len(prev) >= 1
    /\ resp.value = None

----------------------------------------------------------------------------
(* MainHandler *)

\* C5: a POST with a non-empty link and a non-empty url, for a link that has
\* a mapping, that is not confirmed, renders the update-confirmation view
\* with the existing url and the normalized new url, and leaves the table as
\* it was: the link still maps to its old url.
C5_UpdateAsksConfirmation ==
    (/\ IsPost
     /\ NonEmpty(last.link) /\ NonEmpty(last.url)
     /\ Mapped(prev, last.link)
     /\ Empty(last.confirmed))
        => /\ Rendered("confirm_update.html")
           /\ resp.link = last.link
           /\ resp.existing_url = get_url(prev, last.link)
           /\ resp.url = Normalized(last.url)
           /\ urls = prev
           /\ get_url(urls, last.link) = get_url(prev, last.link)

\* POST link=a url=x.com, not confirmed, while a maps to another url
C5_Witness ==
    /\ IsPost
    /\ last.link = Str_a /\ last.url = Str_x_com /\ last.confirmed = Absent
    /\ get_url(prev, Str_a) = Str_https_example_com
    /\ Rendered("confirm_update.html")
    /\ get_url(urls, Str_a) = Str_https_example_com

\* C6: a POST with a non-empty link and a non-empty url, when the link has no
\* mapping or the request is confirmed, upserts the normalized url for the
\* link and renders the "updated" view; get_url(link) is then the normalized
\* url.
C6_Upsert ==
    (/\ IsPost
     /\ NonEmpty(last.link) /\ NonEmpty(last.url)
     /\ (~Mapped(prev, last.link) \/ NonEmpty(last.confirmed)))
        => /\ Rendered("updated.html")
           /\ resp.link = last.link
           /\ resp.url = Normalized(last.url)
           /\ get_url(urls, last.link) = Normalized(last.url)
           /\ RowsOf(urls, last.link) = 1
           /\ Len(urls) = IF Mapped(prev, last.link)
                          THEN Len(prev) ELSE Len(prev) + 1

\* POST link=a url=x.com confirmed, while a maps to another url
C6_Witness ==
    /\ IsPost
    /\ last.link = Str_a /\ last.url = Str_x_com /\ NonEmpty(last.confirmed)
    /\ get_url(prev, Str_a) = Str_https_example_com
    /\ Rendered("updated.html")
    /\ get_url(urls, Str_a) = Str_http_scheme \o Str_x_com

\* C7: a POST with a non-empty link and an empty url: with no mapping the
\* form is rendered again and the table is unchanged; with a mapping and no
\* confirmation the delete-confirmation view shows the existing url and the
\* table is unchanged; with a mapping and confirmation the mapping is deleted
\* and the "deleted" view is rendered.
C7_DeleteFlow ==
    (IsPost /\ NonEmpty(last.link) /\ Empty(last.url)) =>
        /\ ~Mapped(prev, last.link) =>
               /\ Rendered("index.html")
               /\ resp.link = last.link /\ resp.url = EmptyStr
               /\ urls = prev
        /\ (Mapped(prev, last.link) /\ Empty(last.confirmed)) =>
               /\ Rendered("confirm_delete.html")
               /\ resp.link = last.link
               /\ resp.existing_url = get_url(prev, last.link)
               /\ urls = prev
        /\ (Mapped(prev, last.link) /\ NonEmpty(last.confirmed)) =>
               /\ Rendered("deleted.html")
               /\ resp.link = last.link
               /\ get_url(urls, last.link) = None
               /\ ~Mapped(urls, last.link)

\* a confirmed POST with an empty url has deleted the mapping of its link
C7_Witness ==
    /\ IsPost /\ NonEmpty(last.link) /\ Empty(last.url)
    /\ NonEmpty(last.confirmed)
    /\ Mapped(prev, last.link)
    /\ Len(prev) >= 2
    /\ Rendered("deleted.html")
    /\ get_url(urls, last.link) = None

\* C8: GET of a non-empty link redirects with 302 to exactly the stored url
\* when the link has a mapping and renders the form with the link and an
\* empty url when it has none; GET of the empty link renders the empty form;
\* no GET changes the table.
C8_Get ==
    last.op = "GET" =>
        /\ urls = prev
        /\ last.path = EmptyStr =>
               /\ Rendered("index.html")
               /\ resp.link = EmptyStr /\ resp.url = EmptyStr
        /\ (last.path # EmptyStr /\ Mapped(prev, last.path)) =>
               /\ resp.kind = "redirect"
               /\ resp.status = 302
               /\ resp.value = get_url(prev, last.path)
               /\ \E i \in 1..Len(prev) :
                      prev[i] = Row(last.path, resp.value)
        /\ (last.path # EmptyStr /\ ~Mapped(prev, last.path)) =>
               /\ Rendered("index.html")
               /\ resp.link = last.path /\ resp.url = EmptyStr

\* GET /a while a maps to http://x.com
C8_Witness ==
    /\ last.op = "GET"
    /\ last.path = Str_a
    /\ get_url(prev, Str_a) = Str_http_scheme \o Str_x_com
    /\ resp.status = 302
    /\ resp.value = Str_http_scheme \o Str_x_com

\* C9: a non-empty posted url that does not begin with "http" is stored, and
\* shown in the views, as "http://" followed by it; one that begins with
\* "http" is stored unchanged.
C9_Normalization ==
    (IsPost /\ NonEmpty(last.link) /\ NonEmpty(last.url)) =>
        /\ Rendered("updated.html") \/ Rendered("confirm_update.html")
        /\ BeginsWithHttp(last.url) => resp.url = last.url
        /\ ~BeginsWithHttp(last.url) =>
               resp.url = <<"h", "t", "t", "p", ":", "/", "/">> \o last.url
        /\ Rendered("updated.html") =>
               /\ \E i \in 1..Len(urls) : urls[i] = Row(last.link, resp.url)
               /\ get_url(urls, last.link) = resp.url

\* x.com has been stored as http://x.com
C9_Witness ==
    /\ IsPost /\ NonEmpty(last.link)
    /\ last.url = Str_x_com
    /\ Rendered("updated.html")
    /\ get_url(urls, last.link) =
           <<"h", "t", "t", "p", ":", "/", "/", "x", ".", "c", "o", "m">>

\* C10: a POST whose link argument is empty is a no-op for every url and
\* confirmed: the form is rendered again with what was posted, no store call
\* is made and the table is unchanged.
C10_EmptyLinkNoOp ==
    (IsPost /\ Empty(last.link)) =>
        /\ Rendered("index.html")
        /\ resp.link = EmptyStr
        /\ resp.url = Posted(last.url)
        /\ resp.calls = <<>>
        /\ urls = prev

\* a confirmed POST with an empty link and a url, on a table that has rows
C10_Witness ==
    /\ IsPost /\ Empty(last.link)
    /\ NonEmpty(last.url) /\ NonEmpty(last.confirmed)
    /\ Len(prev) >= 1
    /\ Rendered("index.html")
    /\ urls = prev

----------------------------------------------------------------------------
(* Requests in flight together *)

\* the last request went on to its delete_url or set_url
Wrote == IsPost /\ Len(resp.calls) = 2

C12_OneRowPerLink ==
    \A i, j \in 1..Len(urls) : urls[i].link = urls[j].link => i = j

\* a POST that read "no mapping" has run its set_url after another request
\* had created the mapping, and the link has one row
C12_Witness ==
    /\ Wrote /\ Rendered("updated.html")
    /\ Empty(last.confirmed)
    /\ Mapped(prev, last.link)
    /\ RowsOf(urls, last.link) = 1
    /\ Len(urls) = 2

----------------------------------------------------------------------------
(* Storage faults *)

\* the fault of the last call struck: its statement ran, or it was the commit
Struck ==
    \/ last.fault = "COMMIT"
    \/ last.fault \in {"UPDATE", "DELETE", "SELECT"}
    \/ last.fault = "INSERT" /\ ~Mapped(prev, last.link)

\* C13: a storage fault during set_url, delete_url or get_url (between the
\* UPDATE and the INSERT of set_url included) reaches the caller as an error,
\* no statement is run a second time, and the table is left as it was before
\* the call; a call that no fault strikes returns and has the method's
\* effect.
C13_FaultLeavesStore ==
    last.op \in {"set_url", "delete_url", "get_url"} =>
        /\ Struck =>
               /\ resp.kind = "raise"
               /\ resp.value = StorageFault
               /\ urls = prev
               /\ \A i, j \in 1..Len(resp.calls) :
                      resp.calls[i] = resp.calls[j] => i = j
        /\ ~Struck =>
               /\ resp.kind = "return"
               /\ last.op = "set_url" =>
                      urls = set_url(prev, last.link, last.url)
               /\ last.op = "delete_url" => urls = delete_url(prev, last.link)
               /\ last.op = "get_url" =>
                      urls = prev /\ resp.value = get_url(prev, last.link)

\* the commit of a set_url that had changed a row has failed
C13_Witness ==
    /\ last.op = "set_url"
    /\ last.fault = "COMMIT"
    /\ Mapped(prev, last.link)
    /\ get_url(prev, last.link) # last.url
    /\ resp.kind = "raise"
    /\ urls = prev

----------------------------------------------------------------------------
(* The HTTP interface *)

\* the body arguments of the last POST
LastBody == [link |-> last.link, url |-> last.url, confirmed |-> last.confirmed]

C15_RowsWellFormed ==
    /\ \A i \in 1..Len(urls) :
           urls[i].link # EmptyStr /\ BeginsWithHttp(urls[i].url)
    /\ \A i \in 1..Len(resp.calls) :
           resp.calls[i][1] \in {"set_url", "delete_url"}
               => resp.calls[i][2] # EmptyStr

\* a POST of x.com has added a second row to the table
C15_Witness ==
    /\ IsPost /\ last.url = Str_x_com
    /\ Rendered("updated.html")
    /\ Len(prev) = 1 /\ Len(urls) = 2
    /\ urls[2] = Row(last.link, Str_http_scheme \o Str_x_com)

\* C16: a POST is treated as confirmed exactly when its confirmed argument is
\* present with a non-empty value, whatever the value ("false" and "0"
\* included): for a link that has a mapping, the POST deletes or overwrites
\* when the argument is non-empty and asks for confirmation when it is absent
\* or empty.
C16_ConfirmedIsNonEmpty ==
    (IsPost /\ NonEmpty(last.link) /\ Mapped(prev, last.link)) =>
        /\ NonEmpty(last.confirmed) =>
               /\ Wrote
               /\ Rendered(IF Empty(last.url)
                           THEN "deleted.html" ELSE "updated.html")
        /\ Empty(last.confirmed) =>
               /\ ~Wrote
               /\ urls = prev
               /\ Rendered(IF Empty(last.url)
                           THEN "confirm_delete.html"
                           ELSE "confirm_update.html")

\* a POST with confirmed=0 has deleted a mapping
C16_Witness ==
    /\ IsPost /\ last.confirmed = <<"0">>
    /\ Empty(last.url)
    /\ Mapped(prev, last.link)
    /\ Rendered("deleted.html")
    /\ ~Mapped(urls, last.link)

----------------------------------------------------------------------------
(* URLManager: what a write leaves alone *)

\* the rows of the table that are not the link's
RowsOfOthers(t, link) == SelectSeq(t, LAMBDA r : r.link # link)

\* C17: set_url(link, url) and delete_url(link) change the mapping of that
\* link only, links compared case-sensitively: for every other link k (one
\* that differs from link in letter case only included) get_url(k) returns
\* after the call what it returned before, and the rows of the other links
\* are as they were.
C17_Frame ==
    last.op \in {"set_url", "delete_url"} =>
        /\ \A k \in Links :
               k # last.link => get_url(urls, k) = get_url(prev, k)
        /\ RowsOfOthers(urls, last.link) = RowsOfOthers(prev, last.link)

\* delete_url(a) has removed the row of a and kept the row of A
C17_Witness ==
    /\ last.op = "delete_url"
    /\ last.link = Str_a
    /\ Mapped(prev, Str_a) /\ Mapped(prev, Str_A)
    /\ ~Mapped(urls, Str_a)
    /\ get_url(urls, Str_A) # None
    /\ get_url(urls, Str_A) = get_url(prev, Str_A)

====
